---- MODULE Spec2Model ----
(***************************************************************************)
(* A model of the MLBB analysis service: the refresh cycle (runScrape) on  *)
(* the in-memory store, the node-cache in front of the detail / analysis   *)
(* endpoints, the retrying analysis calls, and the pure derivations        *)
(* (tiers, tier list, leaderboard) they rest on.                           *)
(*                                                                         *)
(* JavaScript values are encoded as follows.                               *)
(*   - a rate is an integer number of basis points (0.5432 is 5432);       *)
(*     NoRate (-1) stands for a rate that is null / undefined;             *)
(*   - a hero id is a positive integer; 0 stands for a missing / falsy id; *)
(*   - a name is a string; "" stands for a missing / falsy name;           *)
(*   - a JS object with integer-like keys (heroMap, statsMap) is a         *)
(*     function on a finite set of integers, enumerated in ascending key   *)
(*     order, which is the order Object.keys / Object.values use;          *)
(*   - a JS object with string keys (the tier list) is a sequence of       *)
(*     [tier, names] pairs in key insertion order.                         *)
(***************************************************************************)
EXTENDS Integers, Sequences, FiniteSets, TLC

\* ------------------------------------------------------------------ bounds
MaxScrapes == 3      \* runScrape executions in SpecRefresh
MaxRequests == 2     \* analyze / synergy requests in SpecAnalysis
MixScrapes == 2      \* runScrape executions in Spec
MixRequests == 1     \* analyze / synergy requests in Spec
MaxRoster == 2       \* rows in one /hero-list/ answer
MaxTierHeroes == 4   \* heroes in one list handed to buildTierList
MaxBoard == 11       \* heroes in one list handed to buildLeaderboard
RateSpan == 10000    \* rates handed to the pure functions: 0 .. RateSpan basis points

\* ------------------------------------------------------- program constants
NoRate == -1
DefaultRetries == 2
BackoffUnitMs == 1000
TopN == 10

\* the placeholder string the code writes as an em dash
Dash == "-"

\* --------------------------------------------------------------- utilities
Min(a, b) == IF a <= b THEN a ELSE b

Range(s) == {s[i] : i \in DOMAIN s}

SeqsUpTo(S, n) == UNION {[1..k -> S] : k \in 0..n}

RECURSIVE SortedSeq(_)
SortedSeq(S) ==
  IF S = {} THEN <<>>
  ELSE LET m == CHOOSE x \in S : \A y \in S : x <= y
       IN <<m>> \o SortedSeq(S \ {m})

\* obj[k] = v on a JS object modelled as a function
Put(obj, k, v) == [x \in DOMAIN obj \cup {k} |-> IF x = k THEN v ELSE obj[x]]

EmptyObj == [x \in {} |-> x]

\* Object.values of an object with integer-like keys: ascending key order
ObjectValues(obj) ==
  LET ks == SortedSeq(DOMAIN obj) IN [i \in 1..Len(ks) |-> obj[ks[i]]]

\* ------------------------------------------------------ scraper: tiers, rows
tierFromWinRateStrict(wr) ==
  IF wr = NoRate THEN "Unranked"
  ELSE IF wr > 5600 THEN "S+"
  ELSE IF wr > 5300 THEN "S"
  ELSE IF wr > 5100 THEN "A"
  ELSE IF wr > 4900 THEN "B"
  ELSE "C"
tierFromWinRate(wr) ==
  IF wr = NoRate THEN "Unranked"
  ELSE IF wr >= 5600 THEN "S+"
  ELSE IF wr >= 5300 THEN "S"
  ELSE IF wr >= 5100 THEN "A"
  ELSE IF wr >= 4900 THEN "B"
  ELSE "C"

\* (rate * 100).toFixed(1) + '%' : one decimal, rounded to nearest.  Rates
\* are basis points.  A rate whose last digit is 5 lies half way between two
\* decimals in decimal notation, but toFixed rounds the binary product
\* rate * 100, which lies just below or just above the half: HalfDown holds
\* the rates up to 10005 whose product lies below it and is rounded down.
HalfDown ==
  { 15, 45, 55, 95, 115, 185, 195, 215, 255, 265, 295, 305, 315, 355, 365,
    405, 435, 455, 515, 535, 555, 595, 605, 635, 705, 715, 725, 735, 745,
    755, 765, 785, 835, 865, 885, 895, 905, 935, 945, 985, 1035, 1045,
    1055, 1085, 1095, 1135, 1185, 1195, 1205, 1235, 1245, 1285, 1415,
    1425, 1435, 1445, 1455, 1465, 1485, 1495, 1505, 1535, 1545, 1585,
    1645, 1735, 1745, 1755, 1765, 1785, 1795, 1815, 1845, 1865, 1895,
    1915, 1945, 2035, 2045, 2055, 2065, 2085, 2095, 2115, 2135, 2145,
    2165, 2195, 2215, 2245, 2295, 2345, 2355, 2365, 2385, 2395, 2415,
    2435, 2445, 2465, 2495, 2515, 2545, 2595, 2815, 2825, 2835, 2845,
    2855, 2865, 2875, 2885, 2895, 2905, 2915, 2935, 2945, 2955, 2965,
    2985, 2995, 3005, 3015, 3035, 3045, 3065, 3095, 3115, 3145, 3165,
    3195, 3205, 3215, 3265, 3315, 3445, 3455, 3465, 3485, 3495, 3505,
    3515, 3545, 3555, 3565, 3595, 3605, 3615, 3645, 3655, 3665, 3705,
    3715, 3755, 3765, 3805, 3815, 3865, 3915, 3965, 4065, 4085, 4095,
    4105, 4115, 4135, 4145, 4155, 4165, 4195, 4205, 4215, 4245, 4255,
    4265, 4305, 4315, 4355, 4365, 4405, 4415, 4455, 4465, 4515, 4565,
    4695, 4705, 4715, 4735, 4745, 4755, 4765, 4795, 4805, 4815, 4845,
    4855, 4865, 4895, 4905, 4915, 4955, 4965, 5005, 5015, 5025, 5035,
    5045, 5055, 5065, 5075, 5085, 5095, 5105, 5115, 5125, 5135, 5145,
    5155, 5165, 5175, 5185, 5195, 5205, 5215, 5235, 5245, 5255, 5265,
    5285, 5295, 5305, 5315, 5335, 5345, 5355, 5365, 5385, 5395, 5405,
    5415, 5445, 5455, 5465, 5495, 5505, 5515, 5555, 5565, 5605, 5615,
    5655, 5665, 5705, 5715, 5765, 5815, 6255, 6265, 6275, 6285, 6295,
    6305, 6315, 6325, 6335, 6345, 6355, 6365, 6375, 6385, 6395, 6405,
    6415, 6435, 6455, 6465, 6485, 6505, 6515, 6535, 6555, 6565, 6585,
    6605, 6615, 6635, 6655, 6665, 6685, 6705, 6735, 6755, 6785, 6805,
    6835, 6855, 6885, 6905, 6935, 6955, 6985, 7005, 7035, 7055, 7105,
    7155, 7205, 7255, 7305, 7505, 7515, 7535, 7545, 7555, 7565, 7585,
    7595, 7605, 7615, 7635, 7645, 7655, 7665, 7685, 7705, 7715, 7735,
    7755, 7765, 7785, 7805, 7815, 7835, 7855, 7865, 7885, 7905, 7915,
    7935, 7955, 7985, 8005, 8035, 8055, 8085, 8105, 8135, 8155, 8185,
    8205, 8235, 8255, 8285, 8305, 8355, 8405, 8455, 8505, 8555, 8755,
    8765, 8785, 8795, 8805, 8815, 8835, 8845, 8855, 8865, 8885, 8895,
    8905, 8915, 8935, 8955, 8965, 8985, 9005, 9015, 9035, 9055, 9065,
    9085, 9105, 9115, 9135, 9155, 9165, 9185, 9205, 9235, 9255, 9285,
    9305, 9335, 9355, 9385, 9405, 9435, 9455, 9485, 9505, 9535, 9555,
    9605, 9655, 9705, 9755, 9805, 10005 }

fmtPct(r) ==
  LET tenths == IF r \in HalfDown THEN r \div 10 ELSE (r + 5) \div 10
  IN ToString(tenths \div 10) \o "." \o ToString(tenths % 10) \o "%"

displayRateFalsy(r) == IF r # NoRate /\ r # 0 THEN fmtPct(r) ELSE Dash
displayRate(r) == IF r # NoRate THEN fmtPct(r) ELSE Dash

rawRate(r) == IF r = NoRate THEN 0 ELSE r

\* parseRankRow on a non-null row whose main_heroid is truthy
parseRankRow(d) ==
  [ heroId    |-> d.main_heroid,
    name      |-> d.name,
    img       |-> d.head,
    winRate   |-> displayRate(d.main_hero_win_rate),
    banRate   |-> displayRate(d.main_hero_ban_rate),
    pickRate  |-> displayRate(d.main_hero_appearance_rate),
    tier      |-> tierFromWinRate(d.main_hero_win_rate),
    _winRate  |-> rawRate(d.main_hero_win_rate),
    _banRate  |-> rawRate(d.main_hero_ban_rate),
    _pickRate |-> rawRate(d.main_hero_appearance_rate) ]

\* the roster entry built from one /hero-list/ row
rosterHero(d) ==
  [ name      |-> d.name,
    role      |-> IF d.role # "" THEN d.role ELSE Dash,
    winRate   |-> Dash,
    banRate   |-> Dash,
    pickRate  |-> Dash,
    tier      |-> "Unranked",
    img       |-> d.head,
    heroId    |-> d.hero_id,
    _winRate  |-> 0,
    _banRate  |-> 0,
    _pickRate |-> 0 ]

\* step 1 of scrapeHeroStats: the roster loop inside its try block.  A null
\* row raises a TypeError that the catch absorbs, keeping what was parsed.
RECURSIVE rosterLoop(_, _)
rosterLoop(rows, heroMap) ==
  IF rows = <<>> THEN heroMap
  ELSE LET d == Head(rows) IN
       IF d.json = "null" THEN heroMap
       ELSE IF d.name = "" \/ d.hero_id = 0 THEN rosterLoop(Tail(rows), heroMap)
       ELSE rosterLoop(Tail(rows), Put(heroMap, d.hero_id, rosterHero(d)))

parseRoster(list) ==
  IF list.status # "fulfilled" \/ list.records = "notIterable" THEN EmptyObj
  ELSE IF list.records = "absent" THEN EmptyObj
  ELSE rosterLoop(list.rows, EmptyObj)

\* the inner loop of fetchAllHeroStats over one response's records: the first
\* row with a hero id is stored and ends the loop; a null row throws.
RECURSIVE rankRows(_, _)
rankRows(rows, acc) ==
  IF rows = <<>> THEN acc
  ELSE LET d == Head(rows) IN
       IF d.json = "null" THEN [acc EXCEPT !.threw = TRUE]
       ELSE IF d.main_heroid = 0 THEN rankRows(Tail(rows), acc)
       ELSE [acc EXCEPT !.map = Put(acc.map, d.main_heroid, parseRankRow(d))]

\* fetchAllHeroStats: one POST per hero id, results visited in id order
RECURSIVE fetchLoop(_, _, _)
fetchLoop(ids, rank, acc) ==
  IF ids = <<>> \/ acc.threw THEN acc
  ELSE LET r == rank[Head(ids)] IN
       IF r.status # "fulfilled" \/ r.records = "absent"
         THEN fetchLoop(Tail(ids), rank, acc)
       ELSE IF r.records = "notIterable" THEN [acc EXCEPT !.threw = TRUE]
       ELSE fetchLoop(Tail(ids), rank, rankRows(r.rows, acc))

fetchAllHeroStats(heroIds, rank) ==
  fetchLoop(heroIds, rank, [threw |-> FALSE, map |-> EmptyObj])

\* step 3 of scrapeHeroStats: copy the rank stats into the roster entry
mergeStatsNoTier(h, stats) ==
  [h EXCEPT !.winRate = stats.winRate, !.banRate = stats.banRate,
            !.pickRate = stats.pickRate,
            !._winRate = stats._winRate, !._banRate = stats._banRate,
            !._pickRate = stats._pickRate,
            !.img = IF h.img = "" /\ stats.img # "" THEN stats.img ELSE h.img]
mergeStats(h, stats) ==
  [h EXCEPT !.winRate = stats.winRate, !.banRate = stats.banRate,
            !.pickRate = stats.pickRate, !.tier = stats.tier,
            !._winRate = stats._winRate, !._banRate = stats._banRate,
            !._pickRate = stats._pickRate,
            !.img = IF h.img = "" /\ stats.img # "" THEN stats.img ELSE h.img]

\* scrapeHeroStats on the provider's answers: [threw, heroes]
scrapeHeroStats(resp) ==
  LET heroMap  == parseRoster(resp.list)
      heroIds  == SortedSeq(DOMAIN heroMap)
      fetched  == fetchAllHeroStats(heroIds, resp.rank)
      statsMap == fetched.map
      merged   == [id \in DOMAIN heroMap |->
                     IF id \in DOMAIN statsMap
                       THEN mergeStats(heroMap[id], statsMap[id])
                       ELSE heroMap[id]]
  IN IF fetched.threw THEN [threw |-> TRUE, heroes |-> <<>>]
     ELSE [threw |-> FALSE, heroes |-> ObjectValues(merged)]

\* ------------------------------------------------- server: derived views
TierOrder == <<"S+", "S", "A", "B", "C", "Unranked">>

\* Tier buckets live in a JS object keyed by the label.  Its keys enumerate
\* with the array-index keys first, in ascending numeric order, and the other
\* keys after them in insertion order.  arrayIndex gives the number of an
\* array-index label and -1 for any other label.
arrayIndex(label) ==
  CASE label = "1" -> 1
    [] label = "2" -> 2
    [] OTHER       -> -1

\* obj[entry.tier] = entry for a key the object does not hold yet; the object
\* is the sequence of its entries in enumeration order
RECURSIVE objAdd(_, _)
objAdd(obj, entry) ==
  IF obj = <<>> THEN <<entry>>
  ELSE IF arrayIndex(entry.tier) >= 0
          /\ (arrayIndex(Head(obj).tier) < 0
                \/ arrayIndex(Head(obj).tier) > arrayIndex(entry.tier))
    THEN <<entry>> \o obj
  ELSE IF arrayIndex(entry.tier) < 0 THEN Append(obj, entry)
  ELSE <<Head(obj)>> \o objAdd(Tail(obj), entry)

\* the forEach of buildTierList: a bucket per label, names in input order
RECURSIVE groupTiers(_, _)
groupTiers(heroes, tiers) ==
  IF heroes = <<>> THEN tiers
  ELSE LET h   == Head(heroes)
           idx == {i \in DOMAIN tiers : tiers[i].tier = h.tier}
       IN IF idx = {}
            THEN groupTiers(Tail(heroes),
                            objAdd(tiers, [tier |-> h.tier, names |-> <<h.name>>]))
            ELSE groupTiers(Tail(heroes),
                            [tiers EXCEPT ![CHOOSE i \in idx : TRUE].names =
                                            Append(@, h.name)])

\* the second forEach of buildTierList: the labels outside the fixed order
RECURSIVE addOthers(_, _)
addOthers(sorted, others) ==
  IF others = <<>> THEN sorted
  ELSE addOthers(objAdd(sorted, Head(others)), Tail(others))

buildTierListFirstSeen(heroes) == groupTiers(heroes, <<>>)
buildTierList(heroes) ==
  LET tiers   == groupTiers(heroes, <<>>)
      bucket(t) == tiers[CHOOSE i \in DOMAIN tiers : tiers[i].tier = t]
      present == SelectSeq(TierOrder, LAMBDA t : \E i \in DOMAIN tiers : tiers[i].tier = t)
      fixed   == [i \in 1..Len(present) |-> bucket(present[i])]
      others  == SelectSeq(tiers, LAMBDA e : e.tier \notin Range(TierOrder))
  IN addOthers(fixed, others)

\* Array.prototype.sort with the comparator (a, b) => b[key] - a[key]:
\* a stable sort, descending by key
RECURSIVE insertDescUnstable(_, _, _)
insertDescUnstable(s, h, key) ==
  IF s = <<>> THEN <<h>>
  ELSE IF Head(s)[key] > h[key] THEN <<Head(s)>> \o insertDescUnstable(Tail(s), h, key)
  ELSE <<h>> \o s

RECURSIVE insertDesc(_, _, _)
insertDesc(s, h, key) ==
  IF s = <<>> THEN <<h>>
  ELSE IF Head(s)[key] >= h[key] THEN <<Head(s)>> \o insertDesc(Tail(s), h, key)
  ELSE <<h>> \o s

RECURSIVE sortDesc(_, _)
sortDesc(heroes, key) ==
  IF heroes = <<>> THEN <<>>
  ELSE insertDesc(sortDesc(SubSeq(heroes, 1, Len(heroes) - 1), key),
                  heroes[Len(heroes)], key)

\* the helper top(arr, category, stat) of buildLeaderboard
topAll(arr, category, stat) ==
  [i \in 1..Len(arr) |->
     [ rank |-> i, name |-> arr[i].name, category |-> category,
       role |-> IF arr[i].role # "" THEN arr[i].role ELSE Dash,
       points |-> arr[i][stat], hero |-> arr[i].name, img |-> arr[i].img ]]
top(arr, category, stat) ==
  [i \in 1..Min(TopN, Len(arr)) |->
     [ rank |-> i, name |-> arr[i].name, category |-> category,
       role |-> IF arr[i].role # "" THEN arr[i].role ELSE Dash,
       points |-> arr[i][stat], hero |-> arr[i].name, img |-> arr[i].img ]]

buildLeaderboard(heroes) ==
  LET byWin  == top(sortDesc(heroes, "_winRate"),  "Top Win Rate", "winRate")
      byBan  == top(sortDesc(heroes, "_banRate"),  "Most Banned",  "banRate")
      byPick == top(sortDesc(heroes, "_pickRate"), "Most Picked",  "pickRate")
  IN byWin \o byBan \o byPick

\* ------------------------------------------------ the provider's answers
NullRow == [json |-> "null"]

MiyaRow  == [json |-> "object", name |-> "Miya",  hero_id |-> 1,
             role |-> "Marksman", head |-> "miya.png"]
LaylaRow == [json |-> "object", name |-> "Layla", hero_id |-> 2,
             role |-> "", head |-> ""]

\* a roster row without a hero name
NamelessRow == [json |-> "object", name |-> "", hero_id |-> 3,
                role |-> "Tank", head |-> ""]

\* a second roster row for hero id 2, under the name of hero 1 in capitals
AliasRow == [json |-> "object", name |-> "MIYA", hero_id |-> 2,
             role |-> "Mage", head |-> "alias.png"]

RosterRows == {MiyaRow, LaylaRow, AliasRow, NamelessRow, NullRow}

HeroIds == {1, 2}

MiyaRank  == [json |-> "object", main_heroid |-> 1, name |-> "Miya", head |-> "",
              main_hero_win_rate |-> 5800, main_hero_ban_rate |-> 124,
              main_hero_appearance_rate |-> 1066]
LaylaRank == [json |-> "object", main_heroid |-> 2, name |-> "Layla",
              head |-> "layla.png",
              main_hero_win_rate |-> 4000, main_hero_ban_rate |-> 0,
              main_hero_appearance_rate |-> 2501]
\* a rank row without a hero id
IdlessRank == [json |-> "object", main_heroid |-> 0, name |-> "", head |-> "",
               main_hero_win_rate |-> 5200, main_hero_ban_rate |-> NoRate,
               main_hero_appearance_rate |-> NoRate]

\* rank rows of hero 2 with a win rate of zero, and with the win rate of hero 1
ZeroRank == [json |-> "object", main_heroid |-> 2, name |-> "Layla", head |-> "",
             main_hero_win_rate |-> 0, main_hero_ban_rate |-> NoRate,
             main_hero_appearance_rate |-> 1]
EvenRank == [json |-> "object", main_heroid |-> 2, name |-> "Layla", head |-> "",
             main_hero_win_rate |-> 5800, main_hero_ban_rate |-> 124,
             main_hero_appearance_rate |-> NoRate]

RankRows == {MiyaRank, LaylaRank, ZeroRank, EvenRank, IdlessRank, NullRow}

Rejected == [status |-> "rejected"]

\* an answer of GET /hero-list/
ListAnswers ==
  {Rejected, [status |-> "fulfilled", records |-> "absent"],
   [status |-> "fulfilled", records |-> "notIterable"]}
  \cup {[status |-> "fulfilled", records |-> "array", rows |-> rs] :
          rs \in SeqsUpTo(RosterRows, MaxRoster)}

\* an answer of POST /hero-rank/ for one hero id
RankAnswers ==
  {Rejected, [status |-> "fulfilled", records |-> "absent"],
   [status |-> "fulfilled", records |-> "notIterable"]}
  \cup {[status |-> "fulfilled", records |-> "array", rows |-> <<r>>] :
          r \in RankRows}

ProviderAnswers == [list : ListAnswers, rank : [HeroIds -> RankAnswers]]

\* what one scrapeHeroStats call can resolve to
ScrapeOutcomes == {scrapeHeroStats(resp) : resp \in ProviderAnswers}

\* three answers of the provider: a roster of two with rank stats for one, a
\* provider that is down, and a rank answer whose records cannot be iterated
ServingAnswers ==
  { [list |-> [status |-> "fulfilled", records |-> "array",
               rows |-> <<MiyaRow, LaylaRow>>],
     rank |-> [id \in HeroIds |->
                 IF id = 1 THEN [status |-> "fulfilled", records |-> "array",
                                 rows |-> <<MiyaRank>>]
                           ELSE Rejected]],
    [list |-> Rejected, rank |-> [id \in HeroIds |-> Rejected]],
    [list |-> [status |-> "fulfilled", records |-> "array", rows |-> <<MiyaRow>>],
     rank |-> [id \in HeroIds |-> [status |-> "fulfilled", records |-> "notIterable"]]] }

ServingOutcomes == {scrapeHeroStats(resp) : resp \in ServingAnswers}

\* ---------------------------------------------------------- server state
VARIABLES
  store,     \* the data store: heroes, tierList, leaderboard, lastUpdated, status
  cache,     \* the node-cache: key -> value, for the keys that are set
  scrapes,   \* the runScrape executions awaiting scrapeHeroStats
  started,   \* how many runScrape executions have started
  now,       \* the last reading of the wall clock, 0 before the first
  booted,    \* whether the app.listen callback has run
  reqs,      \* the analyze / synergy requests awaiting the backend or a backoff
  nreq,      \* how many analyze / synergy requests have arrived
  ev,        \* the step just taken and what it answered (history)
  env,       \* process.env.SCRAPE_SECRET, fixed when the process starts
  commits    \* the runScrape executions that stored a snapshot, in order (history)

vars == <<store, cache, scrapes, started, now, booted, reqs, nreq, ev, env, commits>>

\* ------------------------------------------------------------ the cache
cacheHas(c, k) == k \in DOMAIN c

\* cache.set(key, value, 3600)
cacheSetNothing(c, k, v) == c
cacheSet(c, k, v) == Put(c, k, v)

\* cache.flushAll()
flushNothing(c) == c
flushAll(c) == EmptyObj

\* an entry whose ttl has run out is gone
cacheExpire(c, k) == [x \in DOMAIN c \ {k} |-> c[x]]

\* --------------------------------------------------------- the event loop
\* A handler whose await was on a promise that is already settled continues
\* in a microtask of the same turn of the event loop: before it does, only
\* the synchronous heads of other requests parsed in that turn can run; no
\* timer and no answer of the provider or the backend is delivered.
turnOpen == \E rid \in DOMAIN reqs : reqs[rid].pc = "microtask"

\* ------------------------------------------------------------- runScrape
\* lines 63-67 of runScrape: the snapshot assignments after the await
commitStaleViews(st, heroes, t) ==
  [st EXCEPT !.heroes = heroes, !.lastUpdated = t, !.status = "ready"]
commitSnapshot(st, heroes, t) ==
  [ heroes      |-> heroes,
    tierList    |-> buildTierList(heroes),
    leaderboard |-> buildLeaderboard(heroes),
    lastUpdated |-> t,
    status      |-> "ready" ]

\* runScrape up to its await: the status write, then the provider calls start
beginScrape ==
  /\ started < MaxScrapes
  /\ store'   = [store EXCEPT !.status = "scraping"]
  /\ scrapes' = scrapes \cup {started + 1}
  /\ started' = started + 1

\* app.listen callback
Boot ==
  /\ ~booted
  /\ booted' = TRUE
  /\ beginScrape
  /\ ev' = [type |-> "boot", inFlightBefore |-> Cardinality(scrapes)]
  /\ UNCHANGED <<cache, now, reqs, nreq, env, commits>>

\* cron.schedule('0 * * * *', ...)
CronTick ==
  /\ booted
  /\ ~turnOpen
  /\ beginScrape
  /\ ev' = [type |-> "cron", inFlightBefore |-> Cardinality(scrapes)]
  /\ UNCHANGED <<cache, now, booted, reqs, nreq, env, commits>>

\* POST /api/scrape: the x-scrape-secret header of the request is compared
\* with process.env.SCRAPE_SECRET by !==; Unset stands for undefined, the
\* value of a header the request lacks and of a variable the process lacks
Unset == "undefined"

Headers == {Unset, "s3cret", "guess"}

PostScrape(header) ==
  /\ booted
  /\ UNCHANGED <<cache, now, booted, reqs, nreq, env, commits>>
  /\ IF header # env
       THEN /\ UNCHANGED <<store, scrapes, started>>
            /\ ev' = [type |-> "POST /api/scrape", authorized |-> FALSE,
                      code |-> 401, body |-> "Unauthorized", ranScrape |-> FALSE,
                      inFlightBefore |-> Cardinality(scrapes),
                      header |-> header, configured |-> env,
                      storeKept |-> store' = store, cacheKept |-> cache' = cache]
       ELSE /\ beginScrape
            /\ ev' = [type |-> "POST /api/scrape", authorized |-> TRUE,
                      code |-> 200, body |-> "Scrape started", ranScrape |-> TRUE,
                      inFlightBefore |-> Cardinality(scrapes),
                      header |-> header, configured |-> env,
                      storeKept |-> store' = store, cacheKept |-> cache' = cache]

\* history of one finished runScrape: how it ended, what the store and the
\* cache held before it, and whether it left them as they were
views(st) == <<st.heroes, st.tierList, st.leaderboard>>

scrapeDone(id, threw, entities, flushCalls) ==
  [ type |-> "runScrape done", id |-> id, threw |-> threw,
    promise |-> "fulfilled",
    entities |-> entities, flushCalls |-> flushCalls,
    hadHeroes   |-> store.heroes # <<>>,
    hadSnapshot |-> store.lastUpdated # 0,
    cacheWas    |-> Cardinality(DOMAIN cache),
    viewsKept   |-> views(store') = views(store),
    stampKept   |-> store'.lastUpdated = store.lastUpdated,
    cacheKept   |-> cache' = cache ]

\* new Date().toISOString(): the wall clock in milliseconds.  After the
\* reading last it reads later, the same (two commits within a millisecond)
\* or, when the clock of the machine was set back, earlier.
clockReadings(last) == 1..(last + 1)

\* the await of runScrape resolves: scrapeHeroStats returned a hero list
ScrapeReturns(id, out) ==
  /\ id \in scrapes
  /\ ~turnOpen
  /\ ~out.threw
  /\ scrapes' = scrapes \ {id}
  /\ \E t \in clockReadings(now) :
       /\ now'   = t
       /\ store' = commitSnapshot(store, out.heroes, t)
  /\ cache'   = flushAll(cache)
  /\ commits' = Append(commits, id)
  /\ ev' = scrapeDone(id, FALSE, Len(out.heroes), 1)
  /\ UNCHANGED <<started, booted, reqs, nreq, env>>

\* the catch branch of runScrape: the one write it makes to the store
catchKeepsStatus(st) == st
catchBranch(st) == [st EXCEPT !.status = "error"]

\* the await of runScrape rejects: the catch branch runs and the async
\* function returns normally
ScrapeThrowsFlushing(id, out) ==
  /\ id \in scrapes
  /\ ~turnOpen
  /\ out.threw
  /\ scrapes' = scrapes \ {id}
  /\ store'   = catchBranch(store)
  /\ cache'   = flushAll(cache)
  /\ ev' = scrapeDone(id, TRUE, 0, 1)
  /\ UNCHANGED <<started, now, booted, reqs, nreq, env, commits>>
ScrapeThrows(id, out) ==
  /\ id \in scrapes
  /\ ~turnOpen
  /\ out.threw
  /\ scrapes' = scrapes \ {id}
  /\ store'   = catchBranch(store)
  /\ cache'   = cache
  /\ ev' = scrapeDone(id, TRUE, 0, 0)
  /\ UNCHANGED <<started, now, booted, reqs, nreq, env, commits>>

\* ------------------------------------------------------ ai: the analysis
\* String.prototype.toLowerCase on the names requests use
toLowerCase(str) ==
  CASE str = "Miya"  -> "miya"
    [] str = "MIYA"  -> "miya"
    [] str = "Layla" -> "layla"
    [] str = "Nobody" -> "nobody"
    [] str = "Marksman" -> "marksman"
    [] str = "Mark"  -> "mark"
    [] str = "Mage"  -> "mage"
    [] str = "Tank"  -> "tank"
    [] str = "Unranked" -> "unranked"
    [] str = "S+"    -> "s+"
    [] str = "S"     -> "s"
    [] str = "A"     -> "a"
    [] str = "B"     -> "b"
    [] str = "C"     -> "c"
    [] str = "Top Win Rate" -> "top win rate"
    [] str = "Most Banned"  -> "most banned"
    [] str = "Most Picked"  -> "most picked"
    [] str = "Most"  -> "most"
    [] str = "Win"   -> "win"
    [] OTHER         -> str

ReqNames == {"Miya", "Layla"}

\* the { name } object a handler passes for a hero the store does not hold
bareHero(name) ==
  [ name |-> name, role |-> "", winRate |-> "", banRate |-> "", pickRate |-> "",
    tier |-> "", img |-> "", heroId |-> 0,
    _winRate |-> 0, _banRate |-> 0, _pickRate |-> 0 ]

\* store.heroes.find(h => h.name?.toLowerCase() === name.toLowerCase()) || { name }
findHero(heroes, name) ==
  LET hits == {i \in DOMAIN heroes : toLowerCase(heroes[i].name) = toLowerCase(name)}
  IN IF hits = {} THEN bareHero(name)
     ELSE heroes[CHOOSE i \in hits : \A j \in hits : i <= j]

analyzeKey(name) == "ai_analysis_" \o toLowerCase(name)

synergyKey(hero1, hero2) ==
  "synergy_" \o toLowerCase(hero1) \o "_" \o toLowerCase(hero2)

\* JSON values the backend's text can parse to.  A report carries the fields
\* of the schema the prompt asks for; the other two are valid JSON without them.
Report      == [kind |-> "report", by |-> "backend",  a |-> "", b |-> "", role |-> ""]
EmptyObject == [kind |-> "object", by |-> "backend",  a |-> "", b |-> "", role |-> ""]
JsonNull    == [kind |-> "null",   by |-> "backend",  a |-> "", b |-> "", role |-> ""]

hasSchema(v) == v.kind = "report"
truthy(v)    == v.kind # "null"

\* a text is a sequence of tokens: a fence, a JSON document, or prose
FenceJson == "[three backticks]json"
Fence     == "[three backticks]"

JsonDocs == {"{report}", "{}", "null"}

jsonParse(doc) ==
  CASE doc = "{report}" -> Report
    [] doc = "{}"       -> EmptyObject
    [] doc = "null"     -> JsonNull

\* safeParseJSON: strip a leading json fence, a leading fence, a trailing fence,
\* then JSON.parse
safeParseJSON(text) ==
  LET s1 == IF text # <<>> /\ Head(text) = FenceJson THEN Tail(text) ELSE text
      s2 == IF s1 # <<>> /\ Head(s1) = Fence THEN Tail(s1) ELSE s1
      s3 == IF s2 # <<>> /\ s2[Len(s2)] = Fence THEN SubSeq(s2, 1, Len(s2) - 1) ELSE s2
  IN IF Len(s3) = 1 /\ s3[1] \in JsonDocs
       THEN [threw |-> FALSE, value |-> jsonParse(s3[1])]
       ELSE [threw |-> TRUE,  value |-> JsonNull]

BackendTexts ==
  { <<"{report}">>, <<FenceJson, "{report}", Fence>>, <<"Sure:", "{report}">>,
    <<"{}">>, <<"null">> }

\* how one client.messages.create call can end
BackendOutcomes ==
  { [status |-> "rejected", why |-> "error",   text |-> <<>>],
    [status |-> "rejected", why |-> "timeout", text |-> <<>>] }
  \cup {[status |-> "fulfilled", why |-> "", text |-> t] : t \in BackendTexts}

\* the function withRetry runs: the backend call, then safeParseJSON
attempt(outcome) ==
  IF outcome.status # "fulfilled" THEN [threw |-> TRUE, value |-> JsonNull]
  ELSE safeParseJSON(outcome.text)

\* withRetry: the wait after failed attempt i, and whether attempt i is the last
backoffFlat(i) == BackoffUnitMs
backoffMs(i) == BackoffUnitMs * (i + 1)

isLastAttempt(i, retries) == i = retries

\* the catch branches of analyzeHero and analyzeSynergy
heroFallback(hero) ==
  [ kind |-> "report", by |-> "fallback", a |-> hero.name, b |-> "",
    role |-> IF hero.role # "" THEN hero.role ELSE "versatile" ]

synergyFallback(hero1, hero2) ==
  [ kind |-> "report", by |-> "fallback", a |-> hero1.name, b |-> hero2.name,
    role |-> "" ]

fallbackFor(r) ==
  IF r.route = "analyze" THEN heroFallback(r.h1) ELSE synergyFallback(r.h1, r.h2)

\* what analyzeHero / analyzeSynergy resolve to once the last attempt a of
\* request r has ended: the parsed value, or the fallback of the catch branch
analysisResult(r, a) ==
  [rejected |-> FALSE, value |-> IF a.threw THEN fallbackFor(r) ELSE a.value]

\* ------------------------------------------- analyze and synergy handlers
\* of the hero a handler hands to the analysis, what its result can depend on
promptHero(h) == [name |-> h.name, role |-> h.role]

newRequest(route, hero1, hero2, key) ==
  [ route |-> route, hero1 |-> hero1, hero2 |-> hero2, key |-> key,
    h1 |-> promptHero(findHero(store.heroes, hero1)),
    h2 |-> IF route = "synergy" THEN promptHero(findHero(store.heroes, hero2))
                                ELSE promptHero(bareHero("")),
    snapshot |-> Len(commits),
    pc |-> "backend", i |-> 0, calls |-> 1, fails |-> 0, waits |-> <<>> ]

\* the synchronous head of both handlers: the cache lookup, then either the
\* cached answer or the first backend call
arrive(route, hero1, hero2, key) ==
  /\ booted
  /\ nreq < MaxRequests
  /\ nreq' = nreq + 1
  /\ IF cacheHas(cache, key) /\ truthy(cache[key])
       THEN /\ ev' = [type |-> "response", route |-> route, hero1 |-> hero1,
                      hero2 |-> hero2, key |-> key, code |-> 200,
                      source |-> "cache", result |-> cache[key],
                      calls |-> 0, fails |-> 0, waits |-> <<>>]
            /\ reqs' = reqs
       ELSE /\ ev' = [type |-> "request", route |-> route, hero1 |-> hero1,
                      hero2 |-> hero2, key |-> key]
            /\ reqs' = Put(reqs, nreq + 1, newRequest(route, hero1, hero2, key))
  /\ UNCHANGED <<store, cache, scrapes, started, now, booted, env, commits>>

\* GET /api/analyze/:heroName
AnalyzeRequest(name) == arrive("analyze", name, "", analyzeKey(name))

\* GET /api/synergy/:hero1/:hero2
SynergyRequest(hero1, hero2) ==
  arrive("synergy", hero1, hero2, synergyKey(hero1, hero2))

\* the rest of both handlers once analyzeHero / analyzeSynergy has settled
respond(rid, r, res, fails) ==
  /\ reqs' = [x \in DOMAIN reqs \ {rid} |-> reqs[x]]
  /\ IF res.rejected
       THEN /\ cache' = cache
            /\ ev' = [type |-> "response", route |-> r.route, hero1 |-> r.hero1,
                      hero2 |-> r.hero2, key |-> r.key, code |-> 500,
                      source |-> "error", result |-> JsonNull,
                      calls |-> r.calls, fails |-> fails, waits |-> r.waits]
       ELSE /\ cache' = cacheSet(cache, r.key, res.value)
            /\ ev' = [type |-> "response", route |-> r.route, hero1 |-> r.hero1,
                      hero2 |-> r.hero2, key |-> r.key, code |-> 200,
                      source |-> "ai", result |-> res.value,
                      snapshotRead |-> r.snapshot,
                      calls |-> r.calls, fails |-> fails, waits |-> r.waits]

\* a backend call of request rid ends; withRetry returns, sleeps or gives up
BackendSettles(rid, outcome) ==
  /\ rid \in DOMAIN reqs
  /\ ~turnOpen
  /\ reqs[rid].pc = "backend"
  /\ LET r == reqs[rid]
         a == attempt(outcome)
     IN IF a.threw /\ ~isLastAttempt(r.i, DefaultRetries)
          THEN /\ reqs' = [reqs EXCEPT ![rid].pc = "sleep",
                                       ![rid].fails = @ + 1,
                                       ![rid].waits = Append(@, backoffMs(r.i))]
               /\ cache' = cache
               /\ ev' = [type |-> "backoff", route |-> r.route, key |-> r.key,
                         ms |-> backoffMs(r.i)]
          ELSE respond(rid, r, analysisResult(r, a),
                       IF a.threw THEN r.fails + 1 ELSE r.fails)
  /\ UNCHANGED <<store, scrapes, started, now, booted, nreq, env, commits>>

\* the setTimeout of withRetry fires: the next attempt calls the backend
BackoffEnds(rid) ==
  /\ rid \in DOMAIN reqs
  /\ ~turnOpen
  /\ reqs[rid].pc = "sleep"
  /\ reqs' = [reqs EXCEPT ![rid].pc = "backend", ![rid].i = @ + 1,
                          ![rid].calls = @ + 1]
  /\ ev' = [type |-> "retry", route |-> reqs[rid].route, key |-> reqs[rid].key]
  /\ UNCHANGED <<store, cache, scrapes, started, now, booted, nreq, env, commits>>

\* the ttl of a cache entry runs out
CacheExpires(k) ==
  /\ k \in DOMAIN cache
  /\ cache' = cacheExpire(cache, k)
  /\ ev' = [type |-> "expired", key |-> k]
  /\ UNCHANGED <<store, scrapes, started, now, booted, reqs, nreq, env, commits>>

\* ------------------------------------------------ scraper: hero detail
\* An element of a counters / teammates / build array: an object with a
\* name, a bare string, a number, or null.
ItemLayla == [kind |-> "object", name |-> "Layla"]
ItemText  == [kind |-> "string", name |-> "Tigreal"]
ItemNum   == [kind |-> "number", name |-> ""]
ItemNull  == [kind |-> "null",   name |-> ""]

\* arr.map(h => h.name || h.hero_name || h).filter(x => typeof x === 'string'):
\* reading .name of a null element raises a TypeError
RECURSIVE namesOf(_)
namesOf(items) ==
  IF items = <<>> THEN [threw |-> FALSE, names |-> <<>>]
  ELSE LET h    == Head(items)
           rest == namesOf(Tail(items))
       IN IF h.kind = "null" \/ rest.threw THEN [threw |-> TRUE, names |-> <<>>]
          ELSE IF h.kind = "number" THEN rest
          ELSE [rest EXCEPT !.names = <<h.name>> \o @]

\* the counters and teammates fields from a settled /hero-counter/ or
\* /hero-compatibility/ request: findArr, then the map and filter
relatedNames(answer) ==
  IF answer.status # "fulfilled" \/ answer.shape # "array"
    THEN [threw |-> FALSE, names |-> <<>>]
    ELSE namesOf(answer.items)

\* items.map(i => i.name || i.item_name).filter(Boolean): only objects with a
\* name stay; a null item raises a TypeError
RECURSIVE itemNames(_)
itemNames(items) ==
  IF items = <<>> THEN [threw |-> FALSE, names |-> <<>>]
  ELSE LET i    == Head(items)
           rest == itemNames(Tail(items))
       IN IF i.kind = "null" \/ rest.threw THEN [threw |-> TRUE, names |-> <<>>]
          ELSE IF i.kind # "object" THEN rest
          ELSE [rest EXCEPT !.names = <<i.name>> \o @]

\* the build field: everything about /academy/guide/ sits in its own try,
\* whose catch leaves the build empty
buildNames(answer) ==
  IF answer.status # "fulfilled" \/ answer.shape # "array" THEN <<>>
  ELSE IF itemNames(answer.items).threw THEN <<>>
  ELSE itemNames(answer.items).names

\* the fields taken from /hero-detail/: the first record, or the defaults
NoAbility == <<0, 0, 0, 0, 0>>

detailFields(answer, heroId) ==
  IF answer.status = "fulfilled" /\ answer.shape = "record"
    THEN [ name |-> answer.name, role |-> answer.role,
           description |-> answer.story, img |-> answer.head,
           stats |-> answer.ability ]
    ELSE [ name |-> ToString(heroId), role |-> Dash, description |-> "",
           img |-> "", stats |-> NoAbility ]

\* return {}
EmptyFragment ==
  [ empty |-> TRUE, name |-> "", role |-> "", description |-> "", img |-> "",
    stats |-> NoAbility, build |-> <<>>, counters |-> <<>>, teammates |-> <<>> ]

\* heroIdOrSlug: a number is the hero id, a name is looked up in allHeroes;
\* 0 stands for no hero id
resolveHeroId(slug, allHeroes) ==
  IF slug.kind = "id" THEN slug.id
  ELSE LET hits == {i \in DOMAIN allHeroes :
                      toLowerCase(allHeroes[i].name) = toLowerCase(slug.name)}
       IN IF hits = {} THEN 0
          ELSE allHeroes[CHOOSE i \in hits : \A j \in hits : i <= j].heroId

scrapeHeroDetail(slug, allHeroes, sub) ==
  LET heroId == resolveHeroId(slug, allHeroes)
      d      == detailFields(sub.detail, heroId)
      c      == relatedNames(sub.counters)
      t      == relatedNames(sub.compatibility)
  IN IF heroId = 0 THEN EmptyFragment
     ELSE IF c.threw \/ t.threw THEN EmptyFragment
     ELSE [ empty |-> FALSE, name |-> d.name, role |-> d.role,
            description |-> d.description, img |-> d.img, stats |-> d.stats,
            build |-> buildNames(sub.builds),
            counters |-> c.names, teammates |-> t.names ]

\* the answers of the four sub-fetches
DetailAnswers ==
  { Rejected,
    [status |-> "fulfilled", shape |-> "none"],
    [status |-> "fulfilled", shape |-> "record", name |-> "Miya",
     role |-> "Marksman", story |-> "Moon elf", head |-> "miya_big.png",
     ability |-> <<3, 8, 4, 5, 2>>] }

ItemLists == {<<ItemLayla>>, <<ItemLayla, ItemNum, ItemText>>, <<ItemNull>>,
              <<ItemLayla, ItemNull>>}

RelatedAnswers ==
  {Rejected, [status |-> "fulfilled", shape |-> "none"]}
  \cup {[status |-> "fulfilled", shape |-> "array", items |-> l] : l \in ItemLists}

SubFetches ==
  [ detail : DetailAnswers, counters : RelatedAnswers,
    compatibility : RelatedAnswers, builds : RelatedAnswers ]

\* the heroes the detail route passes as allHeroes, and what it is asked for
DetailRoster == <<rosterHero(MiyaRow), rosterHero(LaylaRow)>>

Slugs == {[kind |-> "id", id |-> 1, name |-> ""],
          [kind |-> "name", id |-> 0, name |-> "MIYA"],
          [kind |-> "name", id |-> 0, name |-> "Nobody"]}

\* ------------------------------------- server: GET /api/heroes/:slug
\* the :slug parameters of the requests, and three answers of the four
\* sub-fetches: all good, all rejected, and a counters array holding null
DetailParams == {"Miya", "Nobody", "1"}

GoodRelated == [status |-> "fulfilled", shape |-> "array", items |-> <<ItemLayla>>]

ServingSubFetches ==
  { [ detail |-> [status |-> "fulfilled", shape |-> "record", name |-> "Miya",
                  role |-> "Marksman", story |-> "Moon elf",
                  head |-> "miya_big.png", ability |-> <<3, 8, 4, 5, 2>>],
      counters |-> GoodRelated, compatibility |-> GoodRelated, builds |-> GoodRelated ],
    [ detail |-> Rejected, counters |-> Rejected, compatibility |-> Rejected,
      builds |-> Rejected ],
    [ detail |-> [status |-> "fulfilled", shape |-> "none"],
      counters |-> [status |-> "fulfilled", shape |-> "array", items |-> <<ItemNull>>],
      compatibility |-> GoodRelated, builds |-> GoodRelated ] }

\* the argument scrapeHeroDetail gets for a lower-cased slug: isNaN(slug)
\* tells a hero id from a name
slugArg(slug) ==
  IF slug = "1" THEN [kind |-> "id", id |-> 1, name |-> ""]
  ELSE [kind |-> "name", id |-> 0, name |-> slug]

detailKey(slug) == "hero_detail_" \o slug

\* store.heroes.find(h => h.name?.toLowerCase() === slug); found tells
\* whether there is such a hero
findBase(heroes, slug) ==
  LET hits == {i \in DOMAIN heroes : toLowerCase(heroes[i].name) = slug}
  IN IF hits = {} THEN [found |-> FALSE, hero |-> bareHero(slug)]
     ELSE [found |-> TRUE, hero |-> heroes[CHOOSE i \in hits : \A j \in hits : i <= j]]

\* { ...(base || { name: slug }), ...detail }
spreadDetail(base, detail) ==
  [ name |-> IF detail.empty THEN base.name ELSE detail.name,
    role |-> IF detail.empty THEN base.role ELSE detail.role,
    img  |-> IF detail.empty THEN base.img ELSE detail.img,
    heroId |-> base.heroId, tier |-> base.tier, winRate |-> base.winRate,
    hasDetail |-> ~detail.empty,
    description |-> detail.description, stats |-> detail.stats,
    build |-> detail.build, counters |-> detail.counters,
    teammates |-> detail.teammates ]

\* the rest of the handler once scrapeHeroDetail has resolved: the spread,
\* cache.set and the answer
detailAnswer(r, detail) ==
  /\ cache' = cacheSet(cache, r.key, spreadDetail(r.base.hero, detail))
  /\ ev' = [type |-> "response", route |-> "detail", hero1 |-> r.hero1,
            hero2 |-> "", key |-> r.key, code |-> 200,
            source |-> "live", result |-> spreadDetail(r.base.hero, detail),
            known |-> r.base.found, fragmentEmpty |-> detail.empty,
            snapshotRead |-> r.snapshot,
            cacheKept |-> cache' = cache]

\* GET /api/heroes/:slug up to its await: the cache lookup, the base hero,
\* and the call of scrapeHeroDetail, which without a hero id returns {} at
\* once, so that the handler continues in a microtask, and otherwise starts
\* its requests to the provider.
DetailRequest(param) ==
  LET slug   == toLowerCase(param)
      base   == findBase(store.heroes, slug)
      heroId == resolveHeroId(slugArg(slug), store.heroes)
  IN /\ booted
     /\ nreq < MaxRequests
     /\ nreq' = nreq + 1
     /\ IF cacheHas(cache, detailKey(slug))
          THEN /\ ev' = [type |-> "response", route |-> "detail", hero1 |-> slug,
                         hero2 |-> "", key |-> detailKey(slug), code |-> 200,
                         source |-> "cache", result |-> cache[detailKey(slug)],
                         known |-> base.found, fragmentEmpty |-> FALSE,
                         snapshotRead |-> Len(commits),
                         cacheKept |-> TRUE]
               /\ reqs' = reqs
          ELSE /\ ev' = [type |-> "request", route |-> "detail", hero1 |-> slug,
                         hero2 |-> "", key |-> detailKey(slug)]
               /\ reqs' = Put(reqs, nreq + 1,
                              [route |-> "detail", hero1 |-> slug, hero2 |-> "",
                               key |-> detailKey(slug), base |-> base,
                               roster |-> store.heroes,
                               snapshot |-> Len(commits),
                               pc |-> IF heroId = 0 THEN "microtask"
                                                    ELSE "provider"])
     /\ UNCHANGED <<store, cache, scrapes, started, now, booted, env, commits>>

\* the handler of a request without a hero id continues after its await
DetailContinues(rid) ==
  /\ rid \in DOMAIN reqs
  /\ reqs[rid].pc = "microtask"
  /\ detailAnswer(reqs[rid], EmptyFragment)
  /\ reqs' = [x \in DOMAIN reqs \ {rid} |-> reqs[x]]
  /\ UNCHANGED <<store, scrapes, started, now, booted, nreq, env, commits>>

\* the four sub-fetches of a detail request have settled
DetailSettles(rid, sub) ==
  /\ rid \in DOMAIN reqs
  /\ ~turnOpen
  /\ reqs[rid].pc = "provider"
  /\ LET r == reqs[rid]
     IN detailAnswer(r, scrapeHeroDetail(slugArg(r.hero1), r.roster, sub))
  /\ reqs' = [x \in DOMAIN reqs \ {rid} |-> reqs[x]]
  /\ UNCHANGED <<store, scrapes, started, now, booted, nreq, env, commits>>

\* ------------------------------------------------------ the specification
Init ==
  /\ store = [ heroes |-> <<>>, tierList |-> <<>>, leaderboard |-> <<>>,
               lastUpdated |-> 0, status |-> "initializing" ]
  /\ cache   = EmptyObj
  /\ scrapes = {}
  /\ started = 0
  /\ now     = 0
  /\ booted  = FALSE
  /\ reqs    = EmptyObj
  /\ nreq    = 0
  /\ ev      = [type |-> "init"]
  /\ env     = "s3cret"
  /\ commits = <<>>

\* the refresh cycle alone: every trigger, every answer of the provider
NextRefresh ==
  \/ Boot
  \/ CronTick
  \/ \E header \in Headers : PostScrape(header)
  \/ \E id \in scrapes, out \in ScrapeOutcomes : ScrapeReturns(id, out)
  \/ \E id \in scrapes, out \in ScrapeOutcomes : ScrapeThrows(id, out)

SpecRefresh == Init /\ [][NextRefresh]_vars

\* the refresh cycle of a process started with or without SCRAPE_SECRET
InitAnyEnv ==
  /\ store = [ heroes |-> <<>>, tierList |-> <<>>, leaderboard |-> <<>>,
               lastUpdated |-> 0, status |-> "initializing" ]
  /\ cache   = EmptyObj
  /\ scrapes = {}
  /\ started = 0
  /\ now     = 0
  /\ booted  = FALSE
  /\ reqs    = EmptyObj
  /\ nreq    = 0
  /\ ev      = [type |-> "init"]
  /\ env \in {Unset, "s3cret"}
  /\ commits = <<>>

SpecTrigger == InitAnyEnv /\ [][NextRefresh]_vars

\* the analysis endpoints around the boot refresh, one request after another
\* (Spec interleaves requests with each other and with refreshes)
NextAnalysis ==
  \/ Boot
  \/ \E id \in scrapes, out \in ServingOutcomes : ScrapeReturns(id, out)
  \/ \E id \in scrapes, out \in ServingOutcomes : ScrapeThrows(id, out)
  \/ \E name \in ReqNames : reqs = EmptyObj /\ AnalyzeRequest(name)
  \/ \E hero1 \in ReqNames, hero2 \in ReqNames :
       reqs = EmptyObj /\ SynergyRequest(hero1, hero2)
  \/ \E rid \in DOMAIN reqs, outcome \in BackendOutcomes : BackendSettles(rid, outcome)
  \/ \E rid \in DOMAIN reqs : BackoffEnds(rid)
  \/ \E k \in DOMAIN cache : CacheExpires(k)

SpecAnalysis == Init /\ [][NextAnalysis]_vars

\* refreshes interleaved with analyze and synergy requests (the detail route
\* is interleaved with the refresh in SpecDetail, the read handlers in SpecReads)
Next ==
  \/ Boot
  \/ started < MixScrapes /\ CronTick
  \/ \E header \in Headers :
       (header = env => started < MixScrapes) /\ PostScrape(header)
  \/ \E id \in scrapes, out \in ServingOutcomes : ScrapeReturns(id, out)
  \/ \E id \in scrapes, out \in ServingOutcomes : ScrapeThrows(id, out)
  \/ \E name \in ReqNames : nreq < MixRequests /\ AnalyzeRequest(name)
  \/ \E hero1 \in ReqNames, hero2 \in ReqNames :
       nreq < MixRequests /\ SynergyRequest(hero1, hero2)
  \/ \E rid \in DOMAIN reqs, outcome \in BackendOutcomes : BackendSettles(rid, outcome)
  \/ \E rid \in DOMAIN reqs : BackoffEnds(rid)
  \/ \E k \in DOMAIN cache : CacheExpires(k)

Spec == Init /\ [][Next]_vars

\* the detail route around the boot refresh
NextDetail ==
  \/ Boot
  \/ \E id \in scrapes, out \in ServingOutcomes : ScrapeReturns(id, out)
  \/ \E id \in scrapes, out \in ServingOutcomes : ScrapeThrows(id, out)
  \/ \E param \in DetailParams : DetailRequest(param)
  \/ \E rid \in DOMAIN reqs : DetailContinues(rid)
  \/ \E rid \in DOMAIN reqs, sub \in ServingSubFetches : DetailSettles(rid, sub)
  \/ \E k \in DOMAIN cache : CacheExpires(k)

SpecDetail == Init /\ [][NextDetail]_vars

\* ------------------------------------------------- the read handlers
\* a roster of two in which only the second hero has rank stats: the hero
\* list of the snapshot is not in descending order of any rate
LaylaRankedAnswer ==
  [list |-> [status |-> "fulfilled", records |-> "array",
             rows |-> <<MiyaRow, LaylaRow>>],
   rank |-> [id \in HeroIds |->
               IF id = 2 THEN [status |-> "fulfilled", records |-> "array",
                               rows |-> <<LaylaRank>>]
                         ELSE Rejected]]

ReadingOutcomes ==
  {scrapeHeroStats(resp) : resp \in ServingAnswers \cup {LaylaRankedAnswer}}

\* String.prototype.includes on the lower-cased strings the handlers compare
includes(str, sub) ==
  \/ sub = str
  \/ <<str, sub>> \in { <<"marksman", "mark">>, <<"top win rate", "win">>,
                        <<"most banned", "most">>, <<"most picked", "most">> }

\* a query parameter the request lacks is the empty string
RoleParams  == {"", "Mark", "tank"}
TierParams  == {"", "unranked", "C"}
SortParams  == {"", "winrate", "banrate", "pickrate", "name"}
CategoryParams == {"", "Most", "Win"}
LimitParams == {"", "1", "-1", "0", "abc"}

\* GET /api/heroes: the filters and the sort, applied to a copy of the list
heroesQuery(heroes, role, tier, sort) ==
  LET byRole(h) == includes(toLowerCase(h.role), toLowerCase(role))
      byTier(h) == toLowerCase(h.tier) = toLowerCase(tier)
      f1 == IF role # "" THEN SelectSeq(heroes, byRole) ELSE heroes
      f2 == IF tier # "" THEN SelectSeq(f1, byTier) ELSE f1
  IN CASE sort = "winrate"  -> sortDesc(f2, "_winRate")
       [] sort = "banrate"  -> sortDesc(f2, "_banRate")
       [] sort = "pickrate" -> sortDesc(f2, "_pickRate")
       [] OTHER             -> f2

\* what GET /api/heroes does to the store: [...store.heroes] is a copy, so
\* the filters and the sort never touch the list of the store
heroesQueryInPlace(st, role, tier, sort) ==
  IF role = "" /\ tier = ""
    THEN [st EXCEPT !.heroes = heroesQuery(st.heroes, role, tier, sort)]
    ELSE st
heroesQueryStore(st, role, tier, sort) == st

\* parseInt(limit) || 50
limitOf(limit) ==
  CASE limit = "1"  -> 1
    [] limit = "-1" -> -1
    [] OTHER        -> 50

\* Array.prototype.slice(0, n)
slice0(s, n) ==
  LET end == IF n < 0 THEN (IF Len(s) + n < 0 THEN 0 ELSE Len(s) + n)
                      ELSE Min(n, Len(s))
  IN SubSeq(s, 1, end)

\* GET /api/leaderboard: the category filter and the limit, on a copy
leaderboardQuery(board, category, limit) ==
  LET byCategory(e) == includes(toLowerCase(e.category), toLowerCase(category))
      data == IF category # "" THEN SelectSeq(board, byCategory) ELSE board
  IN slice0(data, limitOf(limit))

\* GET /
GetRoot ==
  /\ booted
  /\ ev' = [type |-> "GET /", status |-> store.status,
            lastUpdated |-> store.lastUpdated, heroCount |-> Len(store.heroes)]
  /\ UNCHANGED <<store, cache, scrapes, started, now, booted, reqs, nreq, env, commits>>

\* GET /api/heroes
GetHeroes(role, tier, sort) ==
  /\ booted
  /\ store' = heroesQueryStore(store, role, tier, sort)
  /\ ev' = [type |-> "GET /api/heroes", role |-> role, tier |-> tier,
            sort |-> sort,
            count |-> Len(heroesQuery(store.heroes, role, tier, sort)),
            lastUpdated |-> store.lastUpdated,
            data |-> heroesQuery(store.heroes, role, tier, sort)]
  /\ UNCHANGED <<cache, scrapes, started, now, booted, reqs, nreq, env, commits>>

\* GET /api/tier-list
GetTierList ==
  /\ booted
  /\ ev' = [type |-> "GET /api/tier-list", lastUpdated |-> store.lastUpdated,
            data |-> store.tierList]
  /\ UNCHANGED <<store, cache, scrapes, started, now, booted, reqs, nreq, env, commits>>

\* GET /api/leaderboard
GetLeaderboard(category, limit) ==
  /\ booted
  /\ ev' = [type |-> "GET /api/leaderboard", category |-> category,
            limit |-> limit, lastUpdated |-> store.lastUpdated,
            data |-> leaderboardQuery(store.leaderboard, category, limit)]
  /\ UNCHANGED <<store, cache, scrapes, started, now, booted, reqs, nreq, env, commits>>

\* the last step was one of the four synchronous read handlers
justRead ==
  ev.type \in {"GET /", "GET /api/heroes", "GET /api/tier-list",
               "GET /api/leaderboard"}

\* every handler that reads the store, around the boot refresh, the analysis
\* and detail requests one after another; the
\* four synchronous handlers change nothing but the history, so one of them
\* right after another reaches no state it does not reach on its own
NextReads ==
  \/ Boot
  \/ \E id \in scrapes, out \in ReadingOutcomes : ScrapeReturns(id, out)
  \/ \E id \in scrapes, out \in ReadingOutcomes : ScrapeThrows(id, out)
  \/ ~justRead /\ GetRoot
  \/ ~justRead /\ \E role \in RoleParams, tier \in TierParams, sort \in SortParams :
       GetHeroes(role, tier, sort)
  \/ ~justRead /\ GetTierList
  \/ ~justRead /\ \E category \in CategoryParams, limit \in LimitParams :
       GetLeaderboard(category, limit)
  \/ \E param \in DetailParams : nreq < MixRequests /\ reqs = EmptyObj /\ DetailRequest(param)
  \/ \E rid \in DOMAIN reqs : DetailContinues(rid)
  \/ \E rid \in DOMAIN reqs, sub \in ServingSubFetches :
       DetailSettles(rid, sub)
  \/ \E name \in ReqNames : nreq < MixRequests /\ reqs = EmptyObj /\ AnalyzeRequest(name)
  \/ \E hero1 \in ReqNames, hero2 \in ReqNames :
       nreq < MixRequests /\ reqs = EmptyObj /\ SynergyRequest(hero1, hero2)
  \/ \E rid \in DOMAIN reqs, outcome \in BackendOutcomes :
       BackendSettles(rid, outcome)
  \/ \E rid \in DOMAIN reqs : BackoffEnds(rid)

SpecReads == Init /\ [][NextReads]_vars

\* ------------------------------------------- the functions on their own
\* the raw win rates a rank row can carry, and the missing rate
WinRates == {NoRate} \cup 0..RateSpan

\* a function is called on its own, outside any handler
idle == ev.type = "init"

\* one call of tierFromWinRate
CallTierFromWinRate(wr) ==
  /\ idle
  /\ ev' = [type |-> "tierFromWinRate", wr |-> wr, tier |-> tierFromWinRate(wr)]
  /\ UNCHANGED <<store, cache, scrapes, started, now, booted, reqs, nreq, env, commits>>

\* one call of scrapeHeroStats against the provider answering resp
CallScrapeHeroStats(resp) ==
  /\ idle
  /\ LET out == scrapeHeroStats(resp)
     IN ev' = [type |-> "scrapeHeroStats", resp |-> resp,
               threw |-> out.threw, heroes |-> out.heroes]
  /\ UNCHANGED <<store, cache, scrapes, started, now, booted, reqs, nreq, env, commits>>

\* the labels a hero handed to buildTierList can carry: the six of
\* tierFromWinRate and three others, two of them array-index strings
\* the tiers a hero of scrapeHeroStats can carry: Unranked without rank
\* stats, a label of tierFromWinRate with them
TierLabels == Range(TierOrder)

\* the hero list whose i-th hero has the i-th label; names tell heroes apart
heroesOfLabels(labels) ==
  [i \in DOMAIN labels |-> [name |-> "h" \o ToString(i), tier |-> labels[i]]]

\* one call of buildTierList
CallBuildTierList(labels) ==
  /\ idle
  /\ ev' = [type |-> "buildTierList", heroes |-> heroesOfLabels(labels),
            tierList |-> buildTierList(heroesOfLabels(labels))]
  /\ UNCHANGED <<store, cache, scrapes, started, now, booted, reqs, nreq, env, commits>>

\* the hero list drawn by bits: hero i has one of two win rates, a ban rate
\* that repeats every five heroes and a pick rate of its own
boardHero(bits, i) ==
  LET win  == IF bits[i] THEN 5500 ELSE 5000
      ban  == ((i * 7) % 5) * 100
      pick == IF bits[i] THEN 10 * (Len(bits) - i) + 1 ELSE 10 * i
  IN [ name |-> "h" \o ToString(i), role |-> IF bits[i] THEN "Mage" ELSE "",
       img |-> "", heroId |-> i, tier |-> tierFromWinRate(win),
       winRate |-> displayRate(win), banRate |-> displayRate(ban),
       pickRate |-> displayRate(pick),
       _winRate |-> win, _banRate |-> ban, _pickRate |-> pick ]

heroesOfBits(bits) == [i \in DOMAIN bits |-> boardHero(bits, i)]

\* buildLeaderboard sorts copies ([...heroes]); its argument stays as it is
heroesAfterBoard(heroes) == heroes

\* one call of buildLeaderboard
CallBuildLeaderboard(bits) ==
  /\ idle
  /\ ev' = [type |-> "buildLeaderboard", heroes |-> heroesOfBits(bits),
            heroesAfter |-> heroesAfterBoard(heroesOfBits(bits)),
            leaderboard |-> buildLeaderboard(heroesOfBits(bits))]
  /\ UNCHANGED <<store, cache, scrapes, started, now, booted, reqs, nreq, env, commits>>

\* the rates of the rank rows above, and the rows parseRankRow is called on
SampleRates == {NoRate, 0, 1, 124, 1066, 2501, 4000, 5200, 5555, 5800}

ParseRows ==
  { [json |-> "object", main_heroid |-> 1, name |-> "Miya", head |-> "",
     main_hero_win_rate |-> w, main_hero_ban_rate |-> b,
     main_hero_appearance_rate |-> k] : w, b, k \in SampleRates }

\* one call of parseRankRow on a row with a hero id
CallParseRankRow(d) ==
  /\ idle
  /\ ev' = [type |-> "parseRankRow", row |-> d, stats |-> parseRankRow(d)]
  /\ UNCHANGED <<store, cache, scrapes, started, now, booted, reqs, nreq, env, commits>>

\* one call of scrapeHeroDetail
CallScrapeHeroDetail(slug, sub) ==
  /\ idle
  /\ ev' = [type |-> "scrapeHeroDetail", slug |-> slug, sub |-> sub,
            heroId |-> resolveHeroId(slug, DetailRoster),
            out |-> scrapeHeroDetail(slug, DetailRoster, sub)]
  /\ UNCHANGED <<store, cache, scrapes, started, now, booted, reqs, nreq, env, commits>>

NextFunctions ==
  \/ idle /\ \E wr \in WinRates : CallTierFromWinRate(wr)
  \/ idle /\ \E slug \in Slugs, sub \in SubFetches : CallScrapeHeroDetail(slug, sub)
  \/ idle /\ \E d \in ParseRows : CallParseRankRow(d)
  \/ idle /\ \E bits \in SeqsUpTo(BOOLEAN, MaxBoard) : CallBuildLeaderboard(bits)
  \/ idle /\ \E labels \in SeqsUpTo(TierLabels, MaxTierHeroes) : CallBuildTierList(labels)
  \/ idle /\ \E resp \in ProviderAnswers : CallScrapeHeroStats(resp)

SpecFunctions == Init /\ [][NextFunctions]_vars

\* ------------------------------------------------------------ properties
RefreshDone == ev.type = "runScrape done"

\* C1: whenever a request handler can run - between any two steps, also with
\* two runScrape executions overlapping - the store's tierList and leaderboard
\* are buildTierList and buildLeaderboard of the store's current heroes.
DerivedViewsMatchHeroes ==
  /\ store.tierList    = buildTierList(store.heroes)
  /\ store.leaderboard = buildLeaderboard(store.heroes)

\* a refresh has just replaced a non-empty snapshot by a different one while
\* another refresh is still in flight
OverlappingRefreshCommitted ==
  /\ RefreshDone /\ ~ev.threw /\ ev.entities >= 2
  /\ ev.hadHeroes /\ ~ev.viewsKept
  /\ scrapes # {}

\* C2: at most one runScrape execution is in flight at any time, whatever the
\* mix of boot, cron and manual triggers.
AtMostOneRefreshInFlight == Cardinality(scrapes) <= 1

\* C3: an authorized POST /api/scrape that arrives while a refresh is in
\* flight is answered 409 and does not call runScrape.
ManualTriggerMidRefreshConflicts ==
  (ev.type = "POST /api/scrape" /\ ev.authorized /\ ev.inFlightBefore > 0)
    => (ev.code = 409 /\ ~ev.ranScrape)

\* C4: a refresh that ends with zero entities never sets status ready; over a
\* non-empty hero list it sets stale and leaves heroes, tierList and
\* leaderboard as they were; when no refresh ever stored a snapshot it sets
\* error and the hero list is empty.
EmptyRefreshKeepsSnapshot ==
  (RefreshDone /\ ~ev.threw /\ ev.entities = 0)
    => /\ store.status # "ready"
       /\ ev.hadHeroes => (store.status = "stale" /\ ev.viewsKept)
       /\ ~ev.hadSnapshot => (store.status = "error" /\ store.heroes = <<>>)

\* C5: a refresh whose scrapeHeroStats throws sets status stale when the store
\* held at least one hero, and error only when it held none.
ThrownRefreshStatusByPrior ==
  (RefreshDone /\ ev.threw)
    => /\ ev.hadHeroes => store.status = "stale"
       /\ store.status = "error" => ~ev.hadHeroes

\* C6: cache.flushAll() runs exactly once in a refresh that returned at least
\* one entity and never in any other refresh, which leaves the cache as it was.
FlushOncePerSuccessfulRefresh ==
  RefreshDone =>
    IF ~ev.threw /\ ev.entities >= 1
      THEN ev.flushCalls = 1
      ELSE ev.flushCalls = 0 /\ ev.cacheKept

\* C7: right after a refresh that returned at least one entity completes, no
\* entry written before is in the cache.
SuccessfulRefreshEmptiesCache ==
  (RefreshDone /\ ~ev.threw /\ ev.entities >= 1) => DOMAIN cache = {}

\* a successful refresh has just completed over a cache that held an entry
RefreshFlushedEntries ==
  RefreshDone /\ ~ev.threw /\ ev.entities >= 1 /\ ev.cacheWas >= 1

\* C8: a synergy request for (B, A) that arrives while the answer to (A, B),
\* A # B, is in the cache uses the key of (A, B) and is served from the cache,
\* without a backend call.
SwappedSynergyServedFromCache ==
  ( /\ ev.type \in {"request", "response"}
    /\ ev.route = "synergy"
    /\ ev.hero1 # ev.hero2
    /\ (ev.type = "response" => ev.source = "cache")
    /\ cacheHas(cache, synergyKey(ev.hero2, ev.hero1))
    /\ truthy(cache[synergyKey(ev.hero2, ev.hero1)]) )
    => /\ ev.key = synergyKey(ev.hero2, ev.hero1)
       /\ ev.type = "response"
       /\ ev.result = cache[synergyKey(ev.hero2, ev.hero1)]

\* C9: whatever the backend does on every attempt, analyzeHero and
\* analyzeSynergy resolve to an object with the fields of the schema and the
\* handlers answer 200, never the 500 envelope.
AnalysisAlwaysWellFormed ==
  (ev.type = "response" /\ ev.source = "ai")
    => (ev.code = 200 /\ hasSchema(ev.result))

\* C10: one analyzeHero / analyzeSynergy call makes between 1 and 3 backend
\* calls, none after the first attempt whose output parses, waits 1 s before
\* the second and 2 s before the third, and returns the fallback only after
\* the third attempt has failed.
RetryDiscipline ==
  /\ \A rid \in DOMAIN reqs :
       LET r == reqs[rid] IN
         /\ r.calls \in 1..3
         /\ r.fails = IF r.pc = "sleep" THEN r.calls ELSE r.calls - 1
         /\ r.waits = SubSeq(<<1000, 2000>>, 1, r.fails)
  /\ (ev.type = "response" /\ ev.source = "ai") =>
       /\ ev.calls \in 1..3
       /\ ev.waits = SubSeq(<<1000, 2000>>, 1, ev.calls - 1)
       /\ ev.result.by = "fallback" => (ev.calls = 3 /\ ev.fails = 3)
       /\ ev.result.by # "fallback" => ev.fails = ev.calls - 1

\* a request has just been answered with the fallback
FallbackAfterThirdFailure ==
  /\ ev.type = "response" /\ ev.source = "ai"
  /\ ev.result.by = "fallback" /\ ev.calls = 3 /\ ev.waits = <<1000, 2000>>

\* C11: a request that ends in the fallback leaves the fallback in the cache
\* under its key, as a backend success would be, and while a fallback is in
\* the cache under a key no request for that key goes to the backend.
FallbackIsCached ==
  /\ (ev.type = "response" /\ ev.source = "ai" /\ ev.result.by = "fallback")
       => (cacheHas(cache, ev.key) /\ cache[ev.key] = ev.result)
  /\ ev.type = "request"
       => ~(cacheHas(cache, ev.key) /\ cache[ev.key].by = "fallback")

\* a request has just been answered from the cache with a fallback
FallbackServedFromCache ==
  /\ ev.type = "response" /\ ev.source = "cache"
  /\ ev.result.by = "fallback" /\ ev.calls = 0

\* C12: tierFromWinRate gives Unranked exactly for a missing rate, and for a
\* rate r the one band that holds it: S+ from 56%, S from 53%, A from 51%,
\* B from 49%, C below; 51% is A and 50.9% is B.
TierBanding ==
  ev.type = "tierFromWinRate" =>
    /\ ev.tier \in {"S+", "S", "A", "B", "C", "Unranked"}
    /\ ev.tier = "Unranked" <=> ev.wr = NoRate
    /\ ev.tier = "S+" <=> ev.wr >= 5600
    /\ ev.tier = "S"  <=> (5300 <= ev.wr /\ ev.wr < 5600)
    /\ ev.tier = "A"  <=> (5100 <= ev.wr /\ ev.wr < 5300)
    /\ ev.tier = "B"  <=> (4900 <= ev.wr /\ ev.wr < 5100)
    /\ ev.tier = "C"  <=> (0 <= ev.wr /\ ev.wr < 4900)
    /\ ev.wr = 5100 => ev.tier = "A"
    /\ ev.wr = 5090 => ev.tier = "B"

\* the rate on a band's lower edge has been classified into that band
TierOnBandEdge ==
  ev.type = "tierFromWinRate" /\ ev.wr = 5100 /\ ev.tier = "A"

ScrapeCallDone == ev.type = "scrapeHeroStats" /\ ~ev.threw

\* C13 as stated: in a hero list returned by scrapeHeroStats, two heroes with
\* the same stored raw win rate carry the same tier, heroes without rank
\* stats included.
TierFunctionOfStoredRate ==
  ScrapeCallDone =>
    \A i, j \in DOMAIN ev.heroes :
      ev.heroes[i]._winRate = ev.heroes[j]._winRate
        => ev.heroes[i].tier = ev.heroes[j].tier

\* C13 amended: a hero whose stored raw win rate is not zero carries the band
\* of that rate, so two heroes with the same non-zero stored rate carry the
\* same tier; a stored zero stands for a missing rate (Unranked) as well as
\* for a rate of zero (C).
TierFunctionOfNonZeroRate ==
  ScrapeCallDone =>
    /\ \A i \in DOMAIN ev.heroes :
         LET h == ev.heroes[i] IN
           IF h._winRate # 0
             THEN h.tier = tierFromWinRate(h._winRate) /\ h.tier # "Unranked"
             ELSE h.tier \in {"C", "Unranked"}
    /\ \A i, j \in DOMAIN ev.heroes :
         (ev.heroes[i]._winRate = ev.heroes[j]._winRate /\ ev.heroes[i]._winRate # 0)
           => ev.heroes[i].tier = ev.heroes[j].tier

\* a hero list with two heroes of the same non-zero stored win rate
TwoHeroesSameRate ==
  /\ ScrapeCallDone /\ Len(ev.heroes) = 2
  /\ ev.heroes[1]._winRate = ev.heroes[2]._winRate
  /\ ev.heroes[1]._winRate # 0 /\ ev.heroes[1].tier = "S+"

\* the labels of a hero list without repeats, in first-seen order
RECURSIVE firstSeen(_, _)
firstSeen(heroes, seen) ==
  IF heroes = <<>> THEN seen
  ELSE firstSeen(Tail(heroes),
                 IF Head(heroes).tier \in Range(seen) THEN seen
                 ELSE Append(seen, Head(heroes).tier))

\* C14: buildTierList puts every hero's name in exactly one bucket, that of
\* its tier, drops none, keeps input order inside a bucket, and lists the
\* non-empty buckets S+, S, A, B, C, Unranked first and any other label after
\* them in first-seen order.  The hero lists are those runScrape can hand
\* over: every tier is one of the six labels, so no other label occurs.
TierListPartitionsInOrder ==
  ev.type = "buildTierList" =>
    LET heroes == ev.heroes
        tl     == ev.tierList
        seen   == firstSeen(heroes, <<>>)
        keys   == [i \in DOMAIN tl |-> tl[i].tier]
    IN /\ \A i \in DOMAIN heroes :
            Cardinality({b \in DOMAIN tl : heroes[i].name \in Range(tl[b].names)}) = 1
       /\ \A b \in DOMAIN tl :
            LET mine == SelectSeq(heroes, LAMBDA h : h.tier = tl[b].tier)
            IN /\ mine # <<>>
               /\ tl[b].names = [k \in DOMAIN mine |-> mine[k].name]
       /\ keys = SelectSeq(TierOrder, LAMBDA t : t \in Range(seen))
                   \o SelectSeq(seen, LAMBDA t : t \notin Range(TierOrder))

\* C14 witness: a list of four heroes whose tiers are first seen in the order
\* C, S+, Unranked, the tier C twice: the buckets come out as S+, C, Unranked
\* and the bucket C holds its two heroes in input order.
TierListReordersBuckets ==
  /\ ev.type = "buildTierList"
  /\ [i \in DOMAIN ev.heroes |-> ev.heroes[i].tier] = <<"C", "S+", "C", "Unranked">>
  /\ ev.tierList = << [tier |-> "S+", names |-> <<"h2">>],
                      [tier |-> "C", names |-> <<"h1", "h3">>],
                      [tier |-> "Unranked", names |-> <<"h4">>] >>

BoardDone == ev.type = "buildLeaderboard"

\* the position in the input list of the hero a leaderboard entry names
inputIndex(heroes, name) == CHOOSE i \in DOMAIN heroes : heroes[i].name = name

\* block c (1 win, 2 ban, 3 pick) of a leaderboard of blocks of k entries
boardBlock(lb, c, k) == SubSeq(lb, (c - 1) * k + 1, c * k)

BoardCategories == <<"Top Win Rate", "Most Banned", "Most Picked">>
BoardMetrics    == <<"_winRate", "_banRate", "_pickRate">>

\* C15: for n heroes buildLeaderboard returns 3 * min(10, n) entries, the
\* blocks Top Win Rate, Most Banned, Most Picked in that order; a block is in
\* non-increasing order of its raw metric, holds the heroes with the highest
\* raw values, and carries the ranks 1, 2, ..., min(10, n).
LeaderboardShape ==
  BoardDone =>
    LET heroes == ev.heroes
        lb     == ev.leaderboard
        n      == Len(heroes)
        k      == IF n < 10 THEN n ELSE 10
    IN /\ Len(lb) = 3 * k
       /\ \A c \in 1..3 :
            LET blk    == boardBlock(lb, c, k)
                raw(j) == heroes[inputIndex(heroes, blk[j].name)][BoardMetrics[c]]
                inBlk  == {inputIndex(heroes, blk[j].name) : j \in 1..k}
            IN /\ \A j \in 1..k : blk[j].category = BoardCategories[c] /\ blk[j].rank = j
               /\ \A j \in 1..(k - 1) : raw(j) >= raw(j + 1)
               /\ Cardinality(inBlk) = k
               /\ \A i \in DOMAIN heroes \ inBlk :
                    \A j \in 1..k : heroes[i][BoardMetrics[c]] <= raw(j)

\* a leaderboard of more than ten heroes has been built
BoardOfMoreThanTen ==
  BoardDone /\ Len(ev.heroes) > 10 /\ Len(ev.leaderboard) = 30

\* C16: in a block of the leaderboard two heroes with the same raw value stand
\* in their input order, a hero left out of the block never precedes in the
\* input a hero of the block with the same raw value, and the input list is
\* not reordered.
LeaderboardTiesByInputOrder ==
  BoardDone =>
    LET heroes == ev.heroes
        lb     == ev.leaderboard
        n      == Len(heroes)
        k      == IF n < 10 THEN n ELSE 10
    IN /\ ev.heroesAfter = heroes
       /\ \A c \in 1..3 :
            LET blk    == boardBlock(lb, c, k)
                at(j)  == inputIndex(heroes, blk[j].name)
                raw(i) == heroes[i][BoardMetrics[c]]
                inBlk  == {at(j) : j \in 1..k}
            IN /\ \A j1, j2 \in 1..k :
                    (j1 < j2 /\ raw(at(j1)) = raw(at(j2))) => at(j1) < at(j2)
               /\ \A i \in DOMAIN heroes \ inBlk :
                    \A j \in 1..k : raw(i) = raw(at(j)) => at(j) < i

\* a tie on the win rate runs across the cut after the tenth entry
TieAcrossTheCut ==
  /\ BoardDone /\ Len(ev.heroes) > 10
  /\ \E i \in DOMAIN ev.heroes :
       /\ \A j \in 1..10 : ev.leaderboard[j].name # ev.heroes[i].name
       /\ ev.heroes[i]._winRate
            = ev.heroes[inputIndex(ev.heroes, ev.leaderboard[10].name)]._winRate

\* what (rate * 100).toFixed(1) + '%' gives for the sample rates
Shown ==
  [r \in SampleRates \ {NoRate} |->
     CASE r = 0    -> "0.0%"
       [] r = 1    -> "0.0%"
       [] r = 124  -> "1.2%"
       [] r = 1066 -> "10.7%"
       [] r = 2501 -> "25.0%"
       [] r = 4000 -> "40.0%"
       [] r = 5200 -> "52.0%"
       [] r = 5555 -> "55.5%"
       [] r = 5800 -> "58.0%"]

\* display string and raw value of one metric agree with the supplied rate
shownFor(display, raw, supplied) ==
  IF supplied = NoRate THEN display = Dash /\ raw = 0
  ELSE display = Shown[supplied] /\ display # Dash /\ raw = supplied

\* C17: the display string of win, ban and pick rate is the supplied rate
\* times 100 with one decimal and a percent sign, and the placeholder exactly
\* when the rate is absent; in a snapshot, after the merge, every display
\* string is the placeholder over a raw 0 or the formatted raw value.
DisplayMatchesRaw ==
  /\ ev.type = "parseRankRow" =>
       /\ shownFor(ev.stats.winRate,  ev.stats._winRate,  ev.row.main_hero_win_rate)
       /\ shownFor(ev.stats.banRate,  ev.stats._banRate,  ev.row.main_hero_ban_rate)
       /\ shownFor(ev.stats.pickRate, ev.stats._pickRate, ev.row.main_hero_appearance_rate)
  /\ ScrapeCallDone =>
       \A i \in DOMAIN ev.heroes :
         LET h == ev.heroes[i]
             ok(display, raw) ==
               \/ display = Dash /\ raw = 0
               \/ raw \in DOMAIN Shown /\ display = Shown[raw]
         IN /\ ok(h.winRate,  h._winRate)
            /\ ok(h.banRate,  h._banRate)
            /\ ok(h.pickRate, h._pickRate)

\* a snapshot of two heroes with merged rank stats, the second with a win
\* rate of zero and no ban rate
MergedRatesShown ==
  /\ ScrapeCallDone /\ Len(ev.heroes) = 2
  /\ ev.heroes[1].winRate = "58.0%" /\ ev.heroes[1]._winRate = 5800
  /\ ev.heroes[2].winRate = "0.0%" /\ ev.heroes[2].banRate = Dash
  /\ ev.heroes[2].pickRate = "0.0%" /\ ev.heroes[2]._pickRate = 1

\* the roster rows scrapeHeroStats can take a hero from: rows with a name and
\* a hero id
usableRow(d) == d.json = "object" /\ d.name # "" /\ d.hero_id # 0

\* C18: in a hero list returned by scrapeHeroStats no two heroes share a
\* heroId, no two share a name up to case, and a hero is the first roster
\* record seen with its identity.
UniqueIdentitiesFirstSeen ==
  (ScrapeCallDone /\ ev.heroes # <<>>) =>
    LET heroes == ev.heroes
        rows   == ev.resp.list.rows
    IN /\ \A i, j \in DOMAIN heroes :
            i # j => /\ heroes[i].heroId # heroes[j].heroId
                     /\ toLowerCase(heroes[i].name) # toLowerCase(heroes[j].name)
       /\ \A i \in DOMAIN heroes :
            LET mine  == {k \in DOMAIN rows :
                            usableRow(rows[k]) /\ rows[k].hero_id = heroes[i].heroId}
                first == CHOOSE k \in mine : \A m \in mine : k <= m
            IN heroes[i].name = rows[first].name

\* C19: scrapeHeroStats never throws, whatever the provider answers, and a
\* record or per-hero request that fails is skipped: every hero of a usable
\* roster row is in the list returned.
ScrapeNeverThrowsKeepsRoster ==
  ev.type = "scrapeHeroStats" =>
    /\ ~ev.threw
    /\ (ev.resp.list.status = "fulfilled" /\ ev.resp.list.records = "array") =>
         \A k \in DOMAIN ev.resp.list.rows :
           usableRow(ev.resp.list.rows[k]) =>
             \E i \in DOMAIN ev.heroes :
               ev.heroes[i].heroId = ev.resp.list.rows[k].hero_id

\* a settled sub-fetch whose content can be used as it is
goodItems(answer) ==
  /\ answer.status = "fulfilled" /\ answer.shape = "array"
  /\ \A k \in DOMAIN answer.items : answer.items[k].kind # "null"

\* the names a list of items of a well-formed answer carries
RECURSIVE textOf(_, _)
textOf(items, kinds) ==
  IF items = <<>> THEN <<>>
  ELSE IF Head(items).kind \in kinds THEN <<Head(items).name>> \o textOf(Tail(items), kinds)
  ELSE textOf(Tail(items), kinds)

\* C20: with a resolvable hero, scrapeHeroDetail returns a fragment that is
\* not the empty one whatever the four sub-fetches answer; a sub-fetch that
\* succeeded fills its own fields and one that failed or is malformed leaves
\* only its own fields empty.
DetailSubFetchesIndependent ==
  (ev.type = "scrapeHeroDetail" /\ ev.heroId # 0) =>
    LET out == ev.out
        sub == ev.sub
    IN /\ ~out.empty
       /\ IF sub.detail.status = "fulfilled" /\ sub.detail.shape = "record"
            THEN out.name = sub.detail.name /\ out.stats = sub.detail.ability
            ELSE out.name = ToString(ev.heroId) /\ out.stats = <<0, 0, 0, 0, 0>>
       /\ out.counters = IF goodItems(sub.counters)
                           THEN textOf(sub.counters.items, {"object", "string"})
                           ELSE <<>>
       /\ out.teammates = IF goodItems(sub.compatibility)
                            THEN textOf(sub.compatibility.items, {"object", "string"})
                            ELSE <<>>
       /\ out.build = IF goodItems(sub.builds)
                        THEN textOf(sub.builds.items, {"object"})
                        ELSE <<>>

\* C22: a synergy request whose two names are equal is answered with 400; it
\* makes no backend call and writes no cache entry.
EqualNamesRejected ==
  /\ (ev.type \in {"request", "response"} /\ ev.route = "synergy"
        /\ ev.hero1 = ev.hero2)
       => (ev.type = "response" /\ ev.code = 400)
  /\ \A rid \in DOMAIN reqs :
       reqs[rid].route = "synergy" => reqs[rid].hero1 # reqs[rid].hero2
  /\ \A h \in ReqNames : ~cacheHas(cache, synergyKey(h, h))

\* C21: a detail request whose slug matches no hero of the snapshot is
\* answered with 404; no success body is built from the bare slug.
UnknownSlugNotFound ==
  (ev.type = "response" /\ ev.route = "detail" /\ ~ev.known)
    => ev.code = 404

\* C26: a detail request writes a cache entry only when the lookup succeeded;
\* when scrapeHeroDetail returned the empty fragment (the slug has no hero
\* id, or the provider fetch failed) the cache is left as it was.
DetailCachedOnlyOnSuccess ==
  (ev.type = "response" /\ ev.route = "detail" /\ ev.source = "live"
     /\ ev.fragmentEmpty)
    => (ev.cacheKept /\ ~cacheHas(cache, ev.key))

\* C23: POST /api/scrape starts a refresh only when the request carries the
\* configured secret in its x-scrape-secret header; on a mismatch it answers
\* 401, does not call runScrape and leaves the store and the cache unchanged.
ScrapeNeedsTheSecret ==
  ev.type = "POST /api/scrape" =>
    /\ ev.ranScrape => (ev.header # Unset /\ ev.header = ev.configured)
    /\ ev.header # ev.configured =>
         (ev.code = 401 /\ ~ev.ranScrape /\ ev.storeKept /\ ev.cacheKept)

\* C24: every runScrape execution, whatever the provider answered, ends with
\* its promise fulfilled, and at the step it ends the store status is ready,
\* stale or error, never scraping.
RefreshEndsSettled ==
  RefreshDone =>
    /\ ev.promise = "fulfilled"
    /\ store.status \in {"ready", "stale", "error"}
    /\ ev.threw => store.status = "error"

\* C24 witness: a refresh whose provider call threw has ended while another
\* one was still in flight, and the status it left is error.
FailedRefreshEndedInError ==
  /\ RefreshDone
  /\ ev.threw
  /\ scrapes # {}
  /\ store.status = "error"

\* C30: a runScrape execution that ends in its catch branch writes the status
\* and nothing else: heroes, tierList, leaderboard and lastUpdated are what
\* they were before the step, and the cache keeps every entry it held.
FailedRefreshKeepsSnapshot ==
  (RefreshDone /\ ev.threw) =>
    /\ ev.viewsKept
    /\ ev.stampKept
    /\ ev.cacheKept
    /\ ev.flushCalls = 0
    /\ store.status = "error"

\* C30 witness: a refresh ended in its catch branch over a store that held a
\* snapshot and a cache that held an entry, and both are still there.
FailedRefreshOverServingState ==
  /\ RefreshDone
  /\ ev.threw
  /\ ev.hadHeroes
  /\ ev.cacheWas > 0
  /\ store.heroes # <<>>
  /\ DOMAIN cache # {}

\* C27: once the first refresh has started, store.status is scraping exactly
\* when at least one runScrape execution is in flight.
ScrapingIffRefreshInFlight ==
  started > 0 => (store.status = "scraping" <=> scrapes # {})

\* C28: the snapshots are stored in the order their refreshes started, so the
\* snapshot of a refresh that started earlier never replaces the snapshot of
\* one that started later; once no refresh is in flight the store holds the
\* snapshot of the last-started refresh that produced one, and lastUpdated,
\* the time of the store, does not give older provider data the newer stamp.
SnapshotsInStartOrder ==
  \A i \in DOMAIN commits : \A j \in DOMAIN commits :
    i < j => commits[i] < commits[j]

\* C29: a result an analyze, synergy or detail handler puts into the cache
\* was computed from the snapshot the store holds at that moment, so the
\* cache never holds an entry that is older than the current snapshot.
CachedResultsOfCurrentSnapshot ==
  (ev.type = "response" /\ ev.source \in {"ai", "live"}) =>
    /\ cacheHas(cache, ev.key)
    /\ ev.snapshotRead = Len(commits)

\* C25: the store is changed only by runScrape: a step that changes heroes
\* (their order included), tierList, leaderboard, lastUpdated or status is
\* the start or the end of a runScrape execution, never a step of a read
\* handler (GET /, /api/heroes, /api/heroes/:slug, /api/tier-list,
\* /api/leaderboard, /api/analyze, /api/synergy).
StoreChangedOnlyByRunScrape ==
  [][store' # store =>
       ev'.type \in {"boot", "cron", "POST /api/scrape", "runScrape done"}]_vars

\* C25 witness: GET /api/heroes has answered with the heroes sorted by win
\* rate, in another order than the list of the store, which is still in the
\* order the refresh stored.
SortedAnswerOverUnsortedStore ==
  /\ ev.type = "GET /api/heroes"
  /\ ev.sort = "winrate"
  /\ ev.role = "" /\ ev.tier = ""
  /\ Len(store.heroes) = 2
  /\ ev.data = <<store.heroes[2], store.heroes[1]>>
  /\ store.heroes[1]._winRate < store.heroes[2]._winRate

====
